---- MODULE Spec2Model ----
(***************************************************************************)
(* Model of the contact manager in src/main.py: the Field classes (Name,  *)
(* Phone, Birthday), Record, AddressBook, the input_error decorator, the  *)
(* command handlers and the command loop of main().                        *)
(*                                                                         *)
(* A Python str is a sequence of one-character strings.  The character    *)
(* "sup2" stands for U+00B2 SUPERSCRIPT TWO, a character for which        *)
(* str.isdigit() is True although it is not one of 0-9.                    *)
(***************************************************************************)
EXTENDS Integers, Sequences, FiniteSets, TLC

VARIABLES rec, book, storage, pc, out, op, args, ret

vars == <<rec, book, storage, pc, out, op, args, ret>>

(***************************************************************************)
(* Bounds of the model.                                                    *)
(***************************************************************************)
MaxPhones == 2
TodaySpan == 9

(***************************************************************************)
(* Characters and the str methods the program uses.                        *)
(***************************************************************************)
AsciiDigits == {"0", "1", "2", "3", "4", "5", "6", "7", "8", "9"}

\* the characters c with c.isdigit() (Unicode Numeric_Type Digit or Decimal)
PyDigitChars == AsciiDigits \cup {"sup2"}

Whitespace == {" "}

DigitVal(c) ==
    CASE c = "0" -> 0 [] c = "1" -> 1 [] c = "2" -> 2 [] c = "3" -> 3
      [] c = "4" -> 4 [] c = "5" -> 5 [] c = "6" -> 6 [] c = "7" -> 7
      [] c = "8" -> 8 [] c = "9" -> 9

DigitChar(n) ==
    CASE n = 0 -> "0" [] n = 1 -> "1" [] n = 2 -> "2" [] n = 3 -> "3"
      [] n = 4 -> "4" [] n = 5 -> "5" [] n = 6 -> "6" [] n = 7 -> "7"
      [] n = 8 -> "8" [] n = 9 -> "9"

\* str.isdigit(): at least one character and every character is a digit
isdigit(s) == Len(s) > 0 /\ \A i \in 1..Len(s) : s[i] \in PyDigitChars

\* str.strip(): drop leading and trailing whitespace
RECURSIVE lstrip(_)
lstrip(s) == IF s # <<>> /\ Head(s) \in Whitespace THEN lstrip(Tail(s)) ELSE s

RECURSIVE rstrip(_)
rstrip(s) ==
    IF s # <<>> /\ s[Len(s)] \in Whitespace
    THEN rstrip(SubSeq(s, 1, Len(s) - 1)) ELSE s

strip(s) == rstrip(lstrip(s))

\* int(s) for a string of ASCII digits
RECURSIVE ToInt(_)
ToInt(s) ==
    IF s = <<>> THEN 0
    ELSE 10 * ToInt(SubSeq(s, 1, Len(s) - 1)) + DigitVal(s[Len(s)])

\* the pieces of s between the occurrences of the character c
RECURSIVE SplitOn(_, _)
SplitOn(s, c) ==
    IF \A i \in 1..Len(s) : s[i] # c THEN <<s>>
    ELSE LET i == CHOOSE k \in 1..Len(s) :
                      s[k] = c /\ \A j \in 1..(k - 1) : s[j] # c
         IN  <<SubSeq(s, 1, i - 1)>> \o SplitOn(SubSeq(s, i + 1, Len(s)), c)

(***************************************************************************)
(* Exceptions.  A call returns a record whose exc field is NoExc when it   *)
(* returned normally and the raised exception otherwise.                   *)
(***************************************************************************)
NoExc == [type |-> "", msg |-> ""]

ValueError(m) == [type |-> "ValueError", msg |-> m]

IndexError == [type |-> "IndexError", msg |-> "list index out of range"]

AttributeError ==
    [type |-> "AttributeError", msg |-> "'NoneType' object has no attribute"]

MsgNameEmpty == "Name cannot be empty"
MsgInvalidPhone == "Phone number must contain exactly 10 digits"
MsgInvalidDate == "Invalid date format. Use DD.MM.YYYY"
MsgDuplicatePhone == "Phone {phone} already exists"
MsgPhoneNotFound == "Phone {phone} not found"
MsgRecordNotFound == "Record {name} not found"
MsgDayOutOfRange == "day is out of range for month"
MsgUnpack == "not enough values to unpack"

(***************************************************************************)
(* Calendar arithmetic of datetime.date.                                   *)
(***************************************************************************)
IsLeap(y) == y % 4 = 0 /\ (y % 100 # 0 \/ y % 400 = 0)

DaysInMonth(y, m) ==
    IF m = 2 THEN (IF IsLeap(y) THEN 29 ELSE 28)
    ELSE IF m \in {4, 6, 9, 11} THEN 30 ELSE 31

DaysBeforeYear(y) ==
    (y - 1) * 365 + ((y - 1) \div 4) - ((y - 1) \div 100) + ((y - 1) \div 400)

RECURSIVE DaysBeforeMonth(_, _)
DaysBeforeMonth(y, m) ==
    IF m = 1 THEN 0 ELSE DaysBeforeMonth(y, m - 1) + DaysInMonth(y, m - 1)

Date(y, m, d) == [year |-> y, month |-> m, day |-> d]

toordinal(dt) ==
    DaysBeforeYear(dt.year) + DaysBeforeMonth(dt.year, dt.month) + dt.day

\* date.weekday(): Monday is 0, Saturday 5, Sunday 6
weekday(dt) == (toordinal(dt) + 6) % 7

\* dt1 < dt2
DateLT(dt1, dt2) ==
    \/ dt1.year < dt2.year
    \/ dt1.year = dt2.year /\ dt1.month < dt2.month
    \/ dt1.year = dt2.year /\ dt1.month = dt2.month /\ dt1.day < dt2.day

NextDay(dt) ==
    IF dt.day < DaysInMonth(dt.year, dt.month)
    THEN Date(dt.year, dt.month, dt.day + 1)
    ELSE IF dt.month < 12 THEN Date(dt.year, dt.month + 1, 1)
    ELSE Date(dt.year + 1, 1, 1)

\* dt + timedelta(days=n), n >= 0
RECURSIVE AddDays(_, _)
AddDays(dt, n) == IF n = 0 THEN dt ELSE AddDays(NextDay(dt), n - 1)

\* date.replace(year=y) putting 29 February on 28 February in a common year
replace_year_Clamp(dt, y) ==
    IF dt.day > DaysInMonth(y, dt.month)
    THEN [exc |-> NoExc, date |-> Date(y, dt.month, DaysInMonth(y, dt.month))]
    ELSE [exc |-> NoExc, date |-> Date(y, dt.month, dt.day)]

\* date.replace(year=y)
replace_year(dt, y) ==
    IF dt.day > DaysInMonth(y, dt.month)
    THEN [exc |-> ValueError(MsgDayOutOfRange), date |-> dt]
    ELSE [exc |-> NoExc, date |-> Date(y, dt.month, dt.day)]

\* strptime failing: the value does not match the format or is no date
strptime_error == [exc |-> ValueError("strptime"), date |-> Date(1, 1, 1)]

\* the date of the fields matched by %d, %m and %Y, which must exist
strptime_date(d, m, y) ==
    IF y < 1 \/ d > DaysInMonth(y, m) THEN strptime_error
    ELSE [exc |-> NoExc, date |-> Date(y, m, d)]

IsAscii(s) == \A i \in 1..Len(s) : s[i] \in AsciiDigits

\* the digits of a %d field: a leading space is allowed before one digit
day_digits(s) == IF Len(s) = 2 /\ s[1] = " " THEN Tail(s) ELSE s

\* %d is one or two digits (01-31, 1-9, or a space and 1-9), %m one or two
\* digits (01-12, 1-9), %Y exactly four digits
strptime_fields(dstr, mstr, ystr) ==
    IF /\ Len(dstr) \in {1, 2} /\ IsAscii(day_digits(dstr))
       /\ ToInt(day_digits(dstr)) \in 1..31
       /\ Len(mstr) \in {1, 2} /\ IsAscii(mstr) /\ ToInt(mstr) \in 1..12
       /\ Len(ystr) = 4 /\ IsAscii(ystr)
    THEN strptime_date(ToInt(day_digits(dstr)), ToInt(mstr), ToInt(ystr))
    ELSE strptime_error

strptime_parts(parts) ==
    IF Len(parts) = 3 THEN strptime_fields(parts[1], parts[2], parts[3])
    ELSE strptime_error

\* datetime.strptime(value, "%d.%m.%Y").date()
strptime(value) == strptime_parts(SplitOn(value, "."))

\* zero-padded decimal of n in w characters
RECURSIVE Pad(_, _)
Pad(n, w) == IF w = 0 THEN <<>> ELSE Pad(n \div 10, w - 1) \o <<DigitChar(n % 10)>>

\* date.strftime("%d.%m.%Y")
strftime(dt) == Pad(dt.day, 2) \o <<".">> \o Pad(dt.month, 2) \o <<".">> \o Pad(dt.year, 4)

(***************************************************************************)
(* Field classes.                                                          *)
(***************************************************************************)
\* Name.__init__
Name(value) ==
    IF value = <<>> \/ strip(value) = <<>>
    THEN [exc |-> ValueError(MsgNameEmpty), value |-> <<>>]
    ELSE [exc |-> NoExc, value |-> strip(value)]

\* Phone._validate_phone
validate_phone(phone) == isdigit(phone) /\ Len(phone) = 10

\* Phone.__init__
Phone(value) ==
    IF ~validate_phone(value)
    THEN [exc |-> ValueError(MsgInvalidPhone), value |-> <<>>]
    ELSE [exc |-> NoExc, value |-> value]

\* Birthday.__init__
Birthday(value) ==
    IF strptime(value).exc # NoExc
    THEN [exc |-> ValueError(MsgInvalidDate), value |-> <<>>]
    ELSE [exc |-> NoExc, value |-> value]

(***************************************************************************)
(* Record.  birthday is <<>> for None and <<value>> for a Birthday.  A     *)
(* method returns the record after the call and the exception it raised.   *)
(***************************************************************************)
None == <<>>

\* Record.__init__
Record(name) ==
    LET n == Name(name)
    IN  [exc |-> n.exc,
         rec |-> [name |-> n.value, phones |-> <<>>, birthday |-> None]]

\* Record.find_phone: the index of the first phone with that value, 0 for None
find_phone(r, phone) ==
    IF \E i \in 1..Len(r.phones) : r.phones[i] = phone
    THEN CHOOSE i \in 1..Len(r.phones) :
             r.phones[i] = phone /\ \A j \in 1..(i - 1) : r.phones[j] # phone
    ELSE 0

\* add_phone appending the raw value before it is validated
add_phone_AppendFirst(r, phone) ==
    IF find_phone(r, phone) # 0
    THEN [exc |-> ValueError(MsgDuplicatePhone), rec |-> r]
    ELSE [exc |-> Phone(phone).exc, rec |-> [r EXCEPT !.phones = Append(@, phone)]]

\* Record.add_phone
add_phone(r, phone) ==
    IF find_phone(r, phone) # 0
    THEN [exc |-> ValueError(MsgDuplicatePhone), rec |-> r]
    ELSE LET phone_obj == Phone(phone)
         IN  IF phone_obj.exc # NoExc THEN [exc |-> phone_obj.exc, rec |-> r]
             ELSE [exc |-> NoExc,
                   rec |-> [r EXCEPT !.phones = Append(@, phone_obj.value)]]

\* Record.remove_phone
remove_phone(r, phone) ==
    LET i == find_phone(r, phone)
    IN  IF i # 0
        THEN [exc |-> NoExc,
              rec |-> [r EXCEPT !.phones =
                         SubSeq(@, 1, i - 1) \o SubSeq(@, i + 1, Len(@))]]
        ELSE [exc |-> ValueError(MsgPhoneNotFound), rec |-> r]

\* Record.edit_phone
edit_phone(r, old_phone, new_phone) ==
    LET index == find_phone(r, old_phone)
    IN  IF index # 0
        THEN LET new_phone_obj == Phone(new_phone)
             IN  IF new_phone_obj.exc # NoExc
                 THEN [exc |-> new_phone_obj.exc, rec |-> r]
                 ELSE [exc |-> NoExc,
                       rec |-> [r EXCEPT !.phones[index] = new_phone_obj.value]]
        ELSE [exc |-> ValueError(MsgPhoneNotFound), rec |-> r]

\* Record.add_birthday
add_birthday(r, birthday) ==
    LET b == Birthday(birthday)
    IN  IF b.exc # NoExc THEN [exc |-> b.exc, rec |-> r]
        ELSE [exc |-> NoExc, rec |-> [r EXCEPT !.birthday = <<b.value>>]]

(***************************************************************************)
(* AddressBook.  The dict self.data is the sequence of its items           *)
(* [key, value] in insertion order.                                        *)
(***************************************************************************)
\* position of the key in the dict, 0 when absent
KeyIndex(data, name) ==
    IF \E i \in 1..Len(data) : data[i].key = name
    THEN CHOOSE i \in 1..Len(data) : data[i].key = name
    ELSE 0

\* dict.__setitem__: a present key keeps its position, a new key goes last
SetItem(data, k, v) ==
    IF KeyIndex(data, k) # 0
    THEN [data EXCEPT ![KeyIndex(data, k)] = [key |-> k, value |-> v]]
    ELSE Append(data, [key |-> k, value |-> v])

\* add_record that keeps the record already stored under the name
add_record_KeepOld(data, record) ==
    IF KeyIndex(data, record.name) # 0 THEN data
    ELSE SetItem(data, record.name, record)

\* AddressBook.add_record
add_record(data, record) == SetItem(data, record.name, record)

\* AddressBook.find: <<>> for None, <<record>> for a record
find(data, name) ==
    IF KeyIndex(data, name) # 0 THEN <<data[KeyIndex(data, name)].value>> ELSE None

\* AddressBook.delete
delete(data, name) ==
    LET i == KeyIndex(data, name)
    IN  IF i # 0
        THEN [exc |-> NoExc,
              data |-> SubSeq(data, 1, i - 1) \o SubSeq(data, i + 1, Len(data))]
        ELSE [exc |-> ValueError(MsgRecordNotFound), data |-> data]

\* the congratulation date of a birthday: Saturday and Sunday go to Monday,
\* but here Sunday is left alone
congratulation_NoSundayShift(birthday_this_year) ==
    IF weekday(birthday_this_year) = 5
    THEN AddDays(birthday_this_year, 2)
    ELSE birthday_this_year

\* the congratulation date of a birthday: Saturday and Sunday go to Monday
congratulation(birthday_this_year) ==
    IF weekday(birthday_this_year) = 5
    THEN AddDays(birthday_this_year, 2)
    ELSE IF weekday(birthday_this_year) = 6
    THEN AddDays(birthday_this_year, 1)
    ELSE birthday_this_year

\* lines 111-124: the entry appended for the next occurrence of a birthday
upcoming_append(name, birthday_this_year, today) ==
    IF /\ 0 <= toordinal(birthday_this_year) - toordinal(today)
       /\ toordinal(birthday_this_year) - toordinal(today) <= 7
    THEN [exc |-> NoExc,
          val |-> <<[name |-> name,
                     birthday |-> strftime(congratulation(birthday_this_year))]>>]
    ELSE [exc |-> NoExc, val |-> <<>>]

\* lines 111-124 after a date.replace(year=) that may have raised
upcoming_replaced(name, replaced, today) ==
    IF replaced.exc # NoExc THEN [exc |-> replaced.exc, val |-> <<>>]
    ELSE upcoming_append(name, replaced.date, today)

\* lines 106-109: this year's birthday, next year's when it is before today
upcoming_this_year(name, birthday_date, this_year, today) ==
    IF this_year.exc # NoExc THEN [exc |-> this_year.exc, val |-> <<>>]
    ELSE IF DateLT(this_year.date, today)
    THEN upcoming_replaced(name, replace_year(birthday_date, today.year + 1), today)
    ELSE upcoming_append(name, this_year.date, today)

\* lines 105-106
upcoming_birthday(name, birthday_date, today) ==
    upcoming_this_year(name, birthday_date,
                       replace_year(birthday_date, today.year), today)

\* the body of the loop of get_upcoming_birthdays for one record: the
\* exception it raises and the entries it appends
upcoming_entry(record, today) ==
    IF record.birthday = None THEN [exc |-> NoExc, val |-> <<>>]
    ELSE upcoming_birthday(record.name, strptime(record.birthday[1]).date, today)

\* the loop of get_upcoming_birthdays from item i on, upcoming so far, where
\* e is the outcome of the loop body for item i
RECURSIVE upcoming_loop(_, _, _, _)
upcoming_step(data, i, today, upcoming, e) ==
    IF e.exc # NoExc THEN [exc |-> e.exc, val |-> <<>>]
    ELSE upcoming_loop(data, i + 1, today, upcoming \o e.val)

upcoming_loop(data, i, today, upcoming) ==
    IF i > Len(data) THEN [exc |-> NoExc, val |-> upcoming]
    ELSE upcoming_step(data, i, today, upcoming,
                       upcoming_entry(data[i].value, today))

\* AddressBook.get_upcoming_birthdays, today = datetime.today().date()
get_upcoming_birthdays(data, today) == upcoming_loop(data, 1, today, <<>>)

(***************************************************************************)
(* The command line: parse_input, input_error and the command handlers.    *)
(***************************************************************************)
\* str.lower() of one character
Lower(c) ==
    CASE c = "A" -> "a" [] c = "B" -> "b" [] c = "C" -> "c" [] c = "D" ->
      "d" [] c = "E" -> "e" [] c = "F" -> "f" [] c = "G" -> "g" [] c = "H"
      -> "h" [] c = "I" -> "i" [] c = "J" -> "j" [] c = "K" -> "k" [] c =
      "L" -> "l" [] c = "M" -> "m" [] c = "N" -> "n" [] c = "O" -> "o" []
      c = "P" -> "p" [] c = "Q" -> "q" [] c = "R" -> "r" [] c = "S" -> "s"
      [] c = "T" -> "t" [] c = "U" -> "u" [] c = "V" -> "v" [] c = "W" ->
      "w" [] c = "X" -> "x" [] c = "Y" -> "y" [] c = "Z" -> "z" [] OTHER
      -> c

\* str.lower()
lower(s) == [i \in 1..Len(s) |-> Lower(s[i])]

\* the first word of a string that starts with one
RECURSIVE FirstWord(_)
FirstWord(s) ==
    IF s = <<>> \/ Head(s) \in Whitespace THEN <<>>
    ELSE <<Head(s)>> \o FirstWord(Tail(s))

\* str.split(): the words between runs of whitespace
RECURSIVE split(_)
split(s) ==
    LET t == lstrip(s)
    IN  IF t = <<>> THEN <<>>
        ELSE <<FirstWord(t)>> \o split(SubSeq(t, Len(FirstWord(t)) + 1, Len(t)))

\* sep.join(items)
RECURSIVE join(_, _)
join(sep, items) ==
    IF items = <<>> THEN <<>>
    ELSE IF Len(items) = 1 THEN items[1]
    ELSE items[1] \o sep \o join(sep, Tail(items))

W_exit == <<"e", "x", "i", "t">>
W_close == <<"c", "l", "o", "s", "e">>
W_hello == <<"h", "e", "l", "l", "o">>
W_add == <<"a", "d", "d">>
W_change == <<"c", "h", "a", "n", "g", "e">>
W_phone == <<"p", "h", "o", "n", "e">>
W_all == <<"a", "l", "l">>
W_add_birthday ==
    <<"a", "d", "d", "-", "b", "i", "r", "t", "h", "d", "a", "y">>
W_show_birthday ==
    <<"s", "h", "o", "w", "-", "b", "i", "r", "t", "h", "d", "a", "y">>
W_birthdays == <<"b", "i", "r", "t", "h", "d", "a", "y", "s">>
W_help == <<"h", "e", "l", "p">>
W_foo == <<"f", "o", "o">>
W_EXIT == <<"E", "X", "I", "T">>

S_ContactName ==
    <<"C", "o", "n", "t", "a", "c", "t", " ", "n", "a", "m", "e", ":",
      " ">>
S_Phones == <<",", " ", "p", "h", "o", "n", "e", "s", ":", " ">>
S_BirthdayPart ==
    <<",", " ", "b", "i", "r", "t", "h", "d", "a", "y", ":", " ">>
S_Semi == <<";", " ">>
S_Colon == <<":", " ">>

\* parse_input returning the empty line as the command hello
parse_input_EmptyIsHello(user_input) ==
    IF user_input = <<>> THEN [exc |-> NoExc, cmd |-> W_hello, args |-> <<>>]
    ELSE LET parts == split(user_input)
         IN  IF parts = <<>>
             THEN [exc |-> ValueError(MsgUnpack), cmd |-> None, args |-> <<>>]
             ELSE [exc |-> NoExc,
                   cmd |-> lower(strip(parts[1])), args |-> Tail(parts)]

\* parse_input: cmd is None (<<>>) for the empty line
parse_input(user_input) ==
    IF user_input = <<>> THEN [exc |-> NoExc, cmd |-> None, args |-> <<>>]
    ELSE LET parts == split(user_input)
         IN  IF parts = <<>>
             THEN [exc |-> ValueError(MsgUnpack), cmd |-> None, args |-> <<>>]
             ELSE [exc |-> NoExc,
                   cmd |-> lower(strip(parts[1])), args |-> Tail(parts)]

\* a str: a fixed text, or a template with the lines that fill it
Str(text) == [type |-> "str", text |-> text, lines |-> <<>>]

StrLines(text, lines) == [type |-> "str", text |-> text, lines |-> lines]

NoVal == [type |-> "NoneType", text |-> "", lines |-> <<>>]

\* a handler raising: the exception and the book as the handler left it
Raise(exc, data) == [exc |-> exc, val |-> NoVal, data |-> data]

Return(val, data) == [exc |-> NoExc, val |-> val, data |-> data]

\* input_error without the AttributeError clause
input_error_NoAttributeError(r) ==
    IF r.exc = NoExc THEN r
    ELSE IF r.exc.type = "ValueError"
    THEN Return(Str(IF r.exc.msg = MsgUnpack
                    THEN "Not enough arguments provided." ELSE r.exc.msg), r.data)
    ELSE IF r.exc.type = "IndexError"
    THEN Return(Str("Not enough arguments provided."), r.data)
    ELSE IF r.exc.type = "KeyError"
    THEN Return(Str("Contact not found."), r.data)
    ELSE r

\* input_error applied to the outcome r of the wrapped function
input_error(r) ==
    IF r.exc = NoExc THEN r
    ELSE IF r.exc.type = "ValueError"
    THEN Return(Str(IF r.exc.msg = MsgUnpack
                    THEN "Not enough arguments provided." ELSE r.exc.msg), r.data)
    ELSE IF r.exc.type = "IndexError"
    THEN Return(Str("Not enough arguments provided."), r.data)
    ELSE IF r.exc.type \in {"KeyError", "AttributeError"}
    THEN Return(Str("Contact not found."), r.data)
    ELSE r

\* the book after the record stored under the key became r
WithRecord(data, k, r) == [data EXCEPT ![KeyIndex(data, k)].value = r]

\* add_contact validating the phone before it creates the record
add_contact_ValidateFirst(a, data) ==
    IF Len(a) < 2 THEN Raise(ValueError(MsgUnpack), data)
    ELSE
      LET name == a[1]
          phone == a[2]
          found == find(data, name)
          record == IF found = None THEN Record(name).rec ELSE found[1]
          added == add_phone(record, phone)
      IN  IF added.exc # NoExc THEN Raise(added.exc, data)
          ELSE Return(Str(IF found = None THEN "Contact added."
                          ELSE "Contact updated."),
                      SetItem(data, record.name, added.rec))

\* add_contact before input_error
add_contact(a, data) ==
    IF Len(a) < 2 THEN Raise(ValueError(MsgUnpack), data)
    ELSE
      LET name == a[1]
          phone == a[2]
          found == find(data, name)
          created == Record(name)
      IN  IF found = None /\ created.exc # NoExc THEN Raise(created.exc, data)
          ELSE
            LET record == IF found = None THEN created.rec ELSE found[1]
                message == IF found = None THEN "Contact added."
                           ELSE "Contact updated."
                data1 == IF found = None THEN add_record(data, record) ELSE data
                k == IF found = None THEN record.name ELSE name
                added == add_phone(record, phone)
                data2 == WithRecord(data1, k, added.rec)
            IN  IF added.exc # NoExc THEN Raise(added.exc, data2)
                ELSE Return(Str(message), data2)

\* change_contact before input_error
change_contact(a, data) ==
    IF Len(a) < 3 THEN Raise(ValueError(MsgUnpack), data)
    ELSE
      LET name == a[1]
          found == find(data, name)
      IN  IF found = None THEN Raise(AttributeError, data)
          ELSE LET edited == edit_phone(found[1], a[2], a[3])
                   data1 == WithRecord(data, name, edited.rec)
               IN  IF edited.exc # NoExc THEN Raise(edited.exc, data1)
                   ELSE Return(Str("Contact updated."), data1)

\* show_phone before input_error
show_phone(a, data) ==
    IF Len(a) < 1 THEN Raise(IndexError, data)
    ELSE
      LET found == find(data, a[1])
      IN  IF found = None THEN Raise(AttributeError, data)
          ELSE IF join(S_Semi, found[1].phones) = <<>>
          THEN Return(Str("No phones available."), data)
          ELSE Return(StrLines("{phones_str}",
                               <<join(S_Semi, found[1].phones)>>), data)

\* Record.__str__
str_record(r) ==
    S_ContactName \o r.name \o S_Phones \o join(S_Semi, r.phones)
      \o (IF r.birthday # None THEN S_BirthdayPart \o r.birthday[1] ELSE <<>>)

\* AddressBook.__str__
str_book(data) ==
    IF data = <<>> THEN Str("Address book is empty")
    ELSE StrLines("{lines}", [i \in 1..Len(data) |-> str_record(data[i].value)])

\* show_all before input_error
show_all(data) == Return(str_book(data), data)

\* the command handler add_birthday before input_error
handler_add_birthday(a, data) ==
    IF Len(a) < 2 THEN Raise(ValueError(MsgUnpack), data)
    ELSE
      LET name == a[1]
          found == find(data, name)
      IN  IF found = None THEN Raise(AttributeError, data)
          ELSE LET set == add_birthday(found[1], a[2])
                   data1 == WithRecord(data, name, set.rec)
               IN  IF set.exc # NoExc THEN Raise(set.exc, data1)
                   ELSE Return(Str("Birthday added."), data1)

\* show_birthday before input_error
show_birthday(a, data) ==
    IF Len(a) < 1 THEN Raise(IndexError, data)
    ELSE
      LET name == a[1]
          found == find(data, name)
      IN  IF found = None THEN Raise(AttributeError, data)
          ELSE IF found[1].birthday = None
          THEN Return(StrLines("No birthday set for '{name}'.", <<name>>), data)
          ELSE Return(StrLines("{name}'s birthday: {birthday}",
                               <<name, found[1].birthday[1]>>), data)

\* lines 217-222 of birthdays
birthdays_message(upcoming, data) ==
    IF upcoming.exc # NoExc THEN Raise(upcoming.exc, data)
    ELSE IF upcoming.val = <<>>
    THEN Return(Str("No upcoming birthdays in the next 7 days."), data)
    ELSE Return(StrLines("Upcoming birthdays:",
                  [i \in 1..Len(upcoming.val) |->
                      upcoming.val[i].name \o S_Colon
                        \o upcoming.val[i].birthday]), data)

\* birthdays before input_error
birthdays(a, data, today) ==
    birthdays_message(get_upcoming_birthdays(data, today), data)

\* save_data: the file holds the pickled book
save_data(data) == <<data>>

\* load_data: the book of the file, an empty AddressBook without a file
load_data(file) == IF file = <<>> THEN <<>> ELSE file[1]

(***************************************************************************)
(* Inputs.                                                                 *)
(***************************************************************************)
Bob == <<"B", "o", "b">>
Al == <<"A", "l">>
Zed == <<"Z", "e", "d">>

P1 == <<"1", "2", "3", "4", "5", "6", "7", "8", "9", "0">>
P2 == <<"0", "9", "8", "7", "6", "5", "4", "3", "2", "1">>
PShort == <<"1", "2", "3", "4", "5", "6", "7", "8", "9">>
PLong == <<"1", "2", "3", "4", "5", "6", "7", "8", "9", "0", "1">>
PAlpha == <<"1", "2", "3", "4", "5", "a", "b", "c", "d", "e">>
PSup == <<"sup2", "sup2", "sup2", "sup2", "sup2",
          "sup2", "sup2", "sup2", "sup2", "sup2">>

PhoneInputs == {P1, P2, PShort, PLong, PAlpha, PSup, <<>>}

B_12_03 == <<"1", "2", ".", "0", "3", ".", "2", "0", "2", "0">>
B_16_03 == <<"1", "6", ".", "0", "3", ".", "1", "9", "9", "0">>
B_17_03 == <<"1", "7", ".", "0", "3", ".", "2", "0", "0", "1">>
B_1_3 == <<"1", ".", "3", ".", "2", "0", "2", "0">>
B_03_01 == <<"0", "3", ".", "0", "1", ".", "2", "0", "0", "0">>
B_30_12 == <<"3", "0", ".", "1", "2", ".", "1", "9", "9", "9">>
B_29_02 == <<"2", "9", ".", "0", "2", ".", "2", "0", "0", "0">>
BadFeb31 == <<"3", "1", ".", "0", "2", ".", "2", "0", "2", "4">>
BadFeb29 == <<"2", "9", ".", "0", "2", ".", "2", "0", "2", "3">>
BadIso == <<"2", "0", "2", "0", "-", "0", "3", "-", "1", "2">>
BadYear == <<"1", "2", ".", "0", "3", ".", "2", "0">>

ValidBirthdays == {B_12_03, B_16_03, B_17_03, B_1_3, B_03_01, B_30_12, B_29_02}

BirthdayInputs == ValidBirthdays \cup {BadFeb31, BadFeb29, BadIso, BadYear, <<>>}

(***************************************************************************)
(* The Record operations on one record.                                    *)
(***************************************************************************)
InitRecord ==
    /\ rec = Record(Bob).rec
    /\ book = <<>>
    /\ storage = <<>>
    /\ pc = "prompt"
    /\ out = <<>>
    /\ op = "Record"
    /\ args = <<Bob>>
    /\ ret = [exc |-> NoExc, val |-> <<>>]

NewPhone ==
    \E value \in PhoneInputs :
        LET r == Phone(value)
        IN  /\ op' = "Phone"
            /\ args' = <<value>>
            /\ ret' = [exc |-> r.exc, val |-> r.value]
            /\ UNCHANGED <<rec, book, storage, pc, out>>

RecAddPhone ==
    \E phone \in PhoneInputs :
        LET r == add_phone(rec, phone)
        IN  /\ Len(r.rec.phones) <= MaxPhones
            /\ rec' = r.rec
            /\ op' = "add_phone"
            /\ args' = <<phone>>
            /\ ret' = [exc |-> r.exc, val |-> <<>>]
            /\ UNCHANGED <<book, storage, pc, out>>

RecRemovePhone ==
    \E phone \in PhoneInputs :
        LET r == remove_phone(rec, phone)
        IN  /\ rec' = r.rec
            /\ op' = "remove_phone"
            /\ args' = <<phone>>
            /\ ret' = [exc |-> r.exc, val |-> <<>>]
            /\ UNCHANGED <<book, storage, pc, out>>

RecEditPhone ==
    \E old_phone \in PhoneInputs, new_phone \in PhoneInputs :
        LET r == edit_phone(rec, old_phone, new_phone)
        IN  /\ rec' = r.rec
            /\ op' = "edit_phone"
            /\ args' = <<old_phone, new_phone>>
            /\ ret' = [exc |-> r.exc, val |-> <<>>]
            /\ UNCHANGED <<book, storage, pc, out>>

RecAddBirthday ==
    \E birthday \in BirthdayInputs :
        LET r == add_birthday(rec, birthday)
        IN  /\ rec' = r.rec
            /\ op' = "add_birthday"
            /\ args' = <<birthday>>
            /\ ret' = [exc |-> r.exc, val |-> <<>>]
            /\ UNCHANGED <<book, storage, pc, out>>

NextRecord ==
    \/ NewPhone
    \/ RecAddPhone
    \/ RecRemovePhone
    \/ RecEditPhone
    \/ RecAddBirthday

SpecRecord == InitRecord /\ [][NextRecord]_vars

RecordOps == {"add_phone", "remove_phone", "edit_phone", "add_birthday"}

HasDuplicate(phones) ==
    \E i, j \in 1..Len(phones) : i # j /\ phones[i] = phones[j]

\* C1: after any sequence of add_phone, remove_phone and edit_phone calls the
\* phone list of the record holds no two phones with the same value.
C1_NoDuplicatePhones == ~HasDuplicate(rec.phones)

TenDecimalDigits(s) == Len(s) = 10 /\ \A i \in 1..Len(s) : s[i] \in AsciiDigits

\* C8: constructing a Phone succeeds with value equal to the input for every
\* string of exactly 10 decimal digits 0-9, and fails with InvalidPhone for
\* every other string.
C8_PhoneAcceptsExactlyTenDecimalDigits ==
    op = "Phone" =>
        IF TenDecimalDigits(args[1])
        THEN ret.exc = NoExc /\ ret.val = args[1]
        ELSE ret.exc = ValueError(MsgInvalidPhone)

\* C3: whenever a Record operation fails the record is exactly as before the
\* call; add_phone of a value already on the record fails with DuplicatePhone,
\* edit_phone and remove_phone of an absent phone fail with PhoneNotFound,
\* add_phone and edit_phone (of a present phone) with an invalid new phone
\* fail with InvalidPhone, add_birthday with an invalid date fails with
\* InvalidDate.
C3_Step ==
    /\ (op' \in RecordOps /\ ret'.exc # NoExc) => rec' = rec
    /\ (op' = "add_phone" /\ find_phone(rec, args'[1]) # 0)
          => ret'.exc = ValueError(MsgDuplicatePhone)
    /\ (op' \in {"edit_phone", "remove_phone"} /\ find_phone(rec, args'[1]) = 0)
          => ret'.exc = ValueError(MsgPhoneNotFound)
    /\ (op' = "add_phone" /\ find_phone(rec, args'[1]) = 0 /\ ret'.exc # NoExc)
          => ret'.exc = ValueError(MsgInvalidPhone) /\ ~TenDecimalDigits(args'[1])
    /\ (op' = "edit_phone" /\ find_phone(rec, args'[1]) # 0 /\ ret'.exc # NoExc)
          => ret'.exc = ValueError(MsgInvalidPhone) /\ ~TenDecimalDigits(args'[2])
    /\ (op' = "remove_phone" /\ ret'.exc # NoExc) => find_phone(rec, args'[1]) = 0
    /\ (op' = "add_birthday" /\ ret'.exc # NoExc)
          => ret'.exc = ValueError(MsgInvalidDate)

C3_FailedOperationLeavesRecord == [][C3_Step]_vars

C3_Witness ==
    /\ op = "edit_phone"
    /\ ret.exc = ValueError(MsgInvalidPhone)
    /\ Len(rec.phones) = 2
    /\ rec.birthday # None

(***************************************************************************)
(* The AddressBook operations on one book.                                 *)
(***************************************************************************)
NameInputs == {Bob, Al}

\* a Record built by Record(name), add_phone and add_birthday
BuildRecord(name, phones, bday) ==
    LET r0 == Record(name).rec
        r1 == IF phones = <<>> THEN r0 ELSE add_phone(r0, phones[1]).rec
    IN  IF bday = <<>> THEN r1 ELSE add_birthday(r1, bday[1]).rec

BookBirthdays == {B_16_03, B_17_03, B_1_3, B_03_01, B_30_12, B_29_02}

RecordInputs ==
    {BuildRecord(n, <<>>, b) :
        n \in NameInputs, b \in {<<>>} \cup {<<v>> : v \in BookBirthdays}}
    \cup {BuildRecord(n, <<P1>>, b) : n \in NameInputs, b \in {<<>>, <<B_16_03>>}}

TodayBases ==
    {Date(2023, 12, 24), Date(2024, 2, 22), Date(2024, 3, 8), Date(2025, 2, 20)}

Todays == UNION {{AddDays(b, k) : k \in 0..TodaySpan} : b \in TodayBases}

InitBook ==
    /\ rec = Record(Bob).rec
    /\ book = <<>>
    /\ storage = <<>>
    /\ pc = "prompt"
    /\ out = <<>>
    /\ op = "AddressBook"
    /\ args = <<>>
    /\ ret = [exc |-> NoExc, val |-> <<>>]

BookAddRecord ==
    \E record \in RecordInputs :
        /\ book' = add_record(book, record)
        /\ op' = "add_record"
        /\ args' = <<record>>
        /\ ret' = [exc |-> NoExc, val |-> <<>>]
        /\ UNCHANGED <<rec, storage, pc, out>>

BookFind ==
    \E name \in NameInputs \cup {Zed} :
        /\ op' = "find"
        /\ args' = <<name>>
        /\ ret' = [exc |-> NoExc, val |-> find(book, name)]
        /\ UNCHANGED <<rec, book, storage, pc, out>>

BookDelete ==
    \E name \in NameInputs \cup {Zed} :
        LET r == delete(book, name)
        IN  /\ book' = r.data
            /\ op' = "delete"
            /\ args' = <<name>>
            /\ ret' = [exc |-> r.exc, val |-> <<>>]
            /\ UNCHANGED <<rec, storage, pc, out>>

BookUpcoming ==
    \E today \in Todays :
        LET r == get_upcoming_birthdays(book, today)
        IN  /\ op' = "get_upcoming_birthdays"
            /\ args' = <<today>>
            /\ ret' = [exc |-> r.exc, val |-> r.val]
            /\ UNCHANGED <<rec, book, storage, pc, out>>

NextBook ==
    \/ BookAddRecord
    \/ BookFind
    \/ BookDelete
    \/ BookUpcoming

SpecBook == InitBook /\ [][NextBook]_vars

\* month and day of the birthday of a record that has one
BirthdayOf(record) == strptime(record.birthday[1]).date

IsFeb29(record) ==
    /\ record.birthday # None
    /\ BirthdayOf(record).month = 2
    /\ BirthdayOf(record).day = 29

SameMonthDay(dt, b) == dt.month = b.month /\ dt.day = b.day

\* day of the week by Zeller's congruence: 0 Saturday, 1 Sunday, 2 Monday ...
Zeller(dt) ==
    LET m == IF dt.month < 3 THEN dt.month + 12 ELSE dt.month
        y == IF dt.month < 3 THEN dt.year - 1 ELSE dt.year
        K == y % 100
        J == y \div 100
    IN  (dt.day + ((13 * (m + 1)) \div 5) + K + (K \div 4) + (J \div 4) + 5 * J) % 7

\* the record has a birthday whose next occurrence is 0 to 7 days after today
InWindow(record, today) ==
    /\ record.birthday # None
    /\ \E k \in 0..7 : SameMonthDay(AddDays(today, k), BirthdayOf(record))

Occurrence(record, today) ==
    AddDays(today, CHOOSE k \in 0..7 :
                       SameMonthDay(AddDays(today, k), BirthdayOf(record)))

Congratulated(occurrence) ==
    IF Zeller(occurrence) = 0 THEN NextDay(NextDay(occurrence))
    ELSE IF Zeller(occurrence) = 1 THEN NextDay(occurrence)
    ELSE occurrence

\* C2: when no birthday of the book is 29 February, get_upcoming_birthdays
\* returns, in the insertion order of the book, one entry for each record that
\* has a birthday whose next occurrence on or after today is 0 to 7 days away,
\* and the date of the entry is that occurrence, moved to the Monday after it
\* when it is a Saturday or a Sunday.
C2_UpcomingBirthdays ==
    (op = "get_upcoming_birthdays"
       /\ \A i \in 1..Len(book) : ~IsFeb29(book[i].value))
    => LET today == args[1]
           Qualifies(e) == InWindow(e.value, today)
           expected == SelectSeq(book, Qualifies)
       IN  /\ ret.exc = NoExc
           /\ Len(ret.val) = Len(expected)
           /\ \A i \in 1..Len(expected) :
                 /\ ret.val[i].name = expected[i].value.name
                 /\ strptime(ret.val[i].birthday).exc = NoExc
                 /\ Len(ret.val[i].birthday) = 10
                 /\ strptime(ret.val[i].birthday).date
                      = Congratulated(Occurrence(expected[i].value, today))

C2_Witness ==
    /\ op = "get_upcoming_birthdays"
    /\ Len(book) = 2
    /\ \A i \in 1..Len(book) : ~IsFeb29(book[i].value)
    /\ Len(ret.val) = 2
    /\ ret.val[1].birthday # ret.val[2].birthday
    /\ \E i \in 1..2 :
          ~SameMonthDay(strptime(ret.val[i].birthday).date, BirthdayOf(book[i].value))

\* the year a 29 February birthday is projected onto: the current year, or
\* the next one when 29 February of this year is before today
ProjectedYear(today) ==
    IF today.month > 2 THEN today.year + 1 ELSE today.year

\* C6: when the book holds a record whose birthday is 29 February and the year
\* the birthday is projected onto is not a leap year, get_upcoming_birthdays
\* fails with a date-construction error and returns no entry for any record.
C6_Feb29Fails ==
    (op = "get_upcoming_birthdays"
       /\ ~IsLeap(ProjectedYear(args[1]))
       /\ \E i \in 1..Len(book) : IsFeb29(book[i].value))
    => ret.exc = ValueError(MsgDayOutOfRange) /\ ret.val = <<>>

C6_Witness ==
    /\ op = "get_upcoming_birthdays"
    /\ Len(book) = 2
    /\ IsFeb29(book[2].value)
    /\ ~IsFeb29(book[1].value)
    /\ InWindow(book[1].value, args[1])
    /\ IsLeap(args[1].year)
    /\ ~IsLeap(ProjectedYear(args[1]))
    /\ ret.exc # NoExc

\* C9: add_record with a record whose name is already a key of the book
\* replaces the record stored under it: find(name) then returns the new
\* record, nothing else is stored under the name, the number of records is
\* unchanged and the records under the other names are unchanged.
C9_Step ==
    (op' = "add_record" /\ KeyIndex(book, args'[1].name) # 0)
    => LET record == args'[1]
           i == KeyIndex(book, record.name)
       IN  /\ find(book', record.name) = <<record>>
           /\ Len(book') = Len(book)
           /\ \A j \in 1..Len(book') :
                 IF j = i THEN book'[j] = [key |-> record.name, value |-> record]
                 ELSE book'[j] = book[j] /\ book'[j].key # record.name

C9_AddRecordReplaces == [][C9_Step]_vars

C9_Witness ==
    /\ op = "add_record"
    /\ Len(book) = 2
    /\ book[1].value = args[1]
    /\ book[1].value.phones = <<>>
    /\ book[1].value.birthday = None

(***************************************************************************)
(* The command loop of main().  One step reads one line, runs the command  *)
(* and prints its message.  pc is "prompt" while the loop runs, "done"     *)
(* after the break and "crashed" when an exception left main().  out is    *)
(* what the step printed.                                                  *)
(***************************************************************************)
Line(words) == join(<<" ">>, words)

Lines ==
    { <<>>, <<" ">>, <<" ", " ">>,
      W_exit, W_close, W_EXIT, <<" ">> \o W_exit \o <<" ">>,
      W_hello, W_help, W_all, W_birthdays, W_foo,
      W_add, Line(<<W_add, Bob>>), Line(<<W_add, Bob, P1>>),
      Line(<<W_add, Bob, P2>>), Line(<<W_add, Al, P1>>),
      Line(<<W_add, Bob, PShort>>), Line(<<W_add, Al, PAlpha>>),
      Line(<<W_change, Bob, P1, P2>>), Line(<<W_change, Bob, P2, P1>>),
      Line(<<W_change, Bob, P1, PShort>>), Line(<<W_change, Zed, P1, P2>>),
      Line(<<W_change, Bob, P1>>),
      W_phone, Line(<<W_phone, Bob>>), Line(<<W_phone, Zed>>),
      W_add_birthday, Line(<<W_add_birthday, Bob, B_16_03>>),
      Line(<<W_add_birthday, Al, B_29_02>>),
      Line(<<W_add_birthday, Bob, BadFeb31>>),
      Line(<<W_add_birthday, Zed, B_16_03>>),
      W_show_birthday, Line(<<W_show_birthday, Bob>>),
      Line(<<W_show_birthday, Zed>>) }

StoredBooks == {<<>>, <<add_record(<<>>, BuildRecord(Bob, <<P1>>, <<>>))>>}

InitCli ==
    /\ rec = Record(Bob).rec
    /\ storage \in StoredBooks
    /\ book = load_data(storage)
    /\ pc = "prompt"
    /\ out = <<Str("Welcome to the assistant bot!")>>
    /\ op = "load_data"
    /\ args = <<>>
    /\ ret = [exc |-> NoExc, val |-> NoVal]

MaxPhonesOf(data) ==
    \A i \in 1..Len(data) : Len(data[i].value.phones) <= MaxPhones

\* the rest of a step that ran a decorated handler with outcome h
Handled(name, line, h) ==
    /\ MaxPhonesOf(h.data)
    /\ book' = h.data
    /\ op' = name
    /\ args' = <<line>>
    /\ ret' = [exc |-> h.exc, val |-> h.val]
    /\ out' = IF h.exc = NoExc THEN <<h.val>> ELSE <<>>
    /\ pc' = IF h.exc = NoExc THEN "prompt" ELSE "crashed"
    /\ UNCHANGED <<rec, storage>>

\* the rest of a step of main() that only prints
Printed(line, text) ==
    /\ op' = "main"
    /\ args' = <<line>>
    /\ ret' = [exc |-> NoExc, val |-> NoVal]
    /\ out' = <<Str(text)>>
    /\ pc' = "prompt"
    /\ UNCHANGED <<rec, book, storage>>

\* parse_input of every line of Lines
Parsed == [line \in Lines |-> parse_input(line)]

Reads(line, command) ==
    /\ pc = "prompt"
    /\ Parsed[line].exc = NoExc
    /\ Parsed[line].cmd = command

Commands ==
    {W_close, W_exit, W_hello, W_add, W_change, W_phone, W_all,
     W_add_birthday, W_show_birthday, W_birthdays, W_help}

MainParseError ==
    \E line \in Lines :
        /\ pc = "prompt"
        /\ Parsed[line].exc # NoExc
        /\ op' = "parse_input"
        /\ args' = <<line>>
        /\ ret' = [exc |-> Parsed[line].exc, val |-> NoVal]
        /\ out' = <<>>
        /\ pc' = "crashed"
        /\ UNCHANGED <<rec, book, storage>>

MainExit ==
    \E line \in Lines :
        /\ pc = "prompt"
        /\ Parsed[line].exc = NoExc
        /\ Parsed[line].cmd \in {W_close, W_exit}
        /\ storage' = save_data(book)
        /\ op' = "main"
        /\ args' = <<line>>
        /\ ret' = [exc |-> NoExc, val |-> NoVal]
        /\ out' = <<Str("Good bye!")>>
        /\ pc' = "done"
        /\ UNCHANGED <<rec, book>>

MainHello ==
    \E line \in Lines :
        Reads(line, W_hello) /\ Printed(line, "How can I help you?")

MainAdd ==
    \E line \in Lines :
        /\ Reads(line, W_add)
        /\ Handled("add_contact", line,
                   input_error(add_contact(Parsed[line].args, book)))

MainChange ==
    \E line \in Lines :
        /\ Reads(line, W_change)
        /\ Handled("change_contact", line,
                   input_error(change_contact(Parsed[line].args, book)))

MainPhone ==
    \E line \in Lines :
        /\ Reads(line, W_phone)
        /\ Handled("show_phone", line,
                   input_error(show_phone(Parsed[line].args, book)))

MainAll ==
    \E line \in Lines :
        /\ Reads(line, W_all)
        /\ Handled("show_all", line, input_error(show_all(book)))

MainAddBirthday ==
    \E line \in Lines :
        /\ Reads(line, W_add_birthday)
        /\ Handled("add_birthday", line,
                   input_error(handler_add_birthday(Parsed[line].args, book)))

MainShowBirthday ==
    \E line \in Lines :
        /\ Reads(line, W_show_birthday)
        /\ Handled("show_birthday", line,
                   input_error(show_birthday(Parsed[line].args, book)))

MainBirthdays ==
    \E line \in Lines :
        /\ Reads(line, W_birthdays)
        /\ \E today \in Todays :
              Handled("birthdays", line,
                      input_error(birthdays(Parsed[line].args, book, today)))

MainHelp ==
    \E line \in Lines :
        Reads(line, W_help) /\ Printed(line, "Available commands: ...")

MainInvalid ==
    \E line \in Lines :
        /\ pc = "prompt"
        /\ Parsed[line].exc = NoExc
        /\ Parsed[line].cmd \notin Commands
        /\ Printed(line, "Invalid command.")

NextCli ==
    \/ MainParseError
    \/ MainExit
    \/ MainHello
    \/ MainAdd
    \/ MainChange
    \/ MainPhone
    \/ MainAll
    \/ MainAddBirthday
    \/ MainShowBirthday
    \/ MainBirthdays
    \/ MainHelp
    \/ MainInvalid

SpecCli == InitCli /\ [][NextCli]_vars

Handlers ==
    {"add_contact", "change_contact", "show_phone", "show_all",
     "add_birthday", "show_birthday", "birthdays"}

\* C4: every command handler returns a message string and lets no error of
\* the core reach the command loop, whatever the book and the arguments.
C4_HandlersReturnMessage ==
    op \in Handlers =>
        /\ ret.exc = NoExc
        /\ ret.val.type = "str"
        /\ out = <<ret.val>>
        /\ pc = "prompt"

C4_Witness ==
    /\ op = "show_phone"
    /\ ret.exc = NoExc
    /\ ret.val = Str("Contact not found.")
    /\ book # <<>>

\* C5: the command loop stops only on an exit or close command, and the book
\* in memory has been written to storage when it stops.
C5_StopsOnlyOnExitSaved ==
    pc # "prompt" =>
        /\ pc = "done"
        /\ parse_input(args[1]).exc = NoExc
        /\ parse_input(args[1]).cmd \in {W_exit, W_close}
        /\ storage = <<book>>

\* C7 as stated: an empty input line prints nothing, leaves the book
\* unchanged and the loop prompts again.
C7_Original_Step ==
    (op' \in Handlers \cup {"main", "parse_input"} /\ args' = <<<<>>>>)
    => out' = <<>> /\ book' = book /\ pc' = "prompt"

C7_EmptyLinePrintsNothing == [][C7_Original_Step]_vars

\* C7 amended: an empty input line leaves the book and the storage unchanged
\* and the loop prompts again, and "Invalid command." is printed for it.
C7_Step ==
    (op' \in Handlers \cup {"main", "parse_input"} /\ args' = <<<<>>>>)
    => /\ out' = <<Str("Invalid command.")>>
       /\ book' = book
       /\ storage' = storage
       /\ pc' = "prompt"

C7_EmptyLineInvalidCommand == [][C7_Step]_vars

C7_Witness ==
    /\ op = "main"
    /\ args = <<<<>>>>
    /\ book # <<>>
    /\ pc = "prompt"

\* C10: the add command with a name that is not in the book and a phone that
\* fails validation returns the phone-validation message and leaves in the
\* book a record under that name with an empty phone list, so the book is
\* changed by the failed command.
C10_Step ==
    LET a == parse_input(args'[1]).args
    IN  (op' = "add_contact" /\ Len(a) >= 2 /\ find(book, a[1]) = None
           /\ Phone(a[2]).exc # NoExc)
        => /\ ret'.val = Str(MsgInvalidPhone)
           /\ find(book', a[1])
                = <<[name |-> a[1], phones |-> <<>>, birthday |-> None]>>
           /\ Len(book') = Len(book) + 1
           /\ book' # book

C10_FailedAddLeavesEmptyRecord == [][C10_Step]_vars

C10_Witness ==
    /\ op = "add_contact"
    /\ ret.val = Str(MsgInvalidPhone)
    /\ Len(book) = 2
    /\ book[2].value = [name |-> Al, phones |-> <<>>, birthday |-> None]
    /\ parse_input(args[1]).args = <<Al, PAlpha>>

====
